---- MODULE Spec2Model ----
(***************************************************************************)
(* Document review panel (src/src/app.py, src/src/utils.py).               *)
(*                                                                         *)
(* app.py is a Streamlit script: every user interaction re-executes the    *)
(* whole script top to bottom against the persistent st.session_state.     *)
(* One action of the session specification is therefore one interaction:   *)
(* the widget's new value, its on_change callback, and the complete script *)
(* run that follows (up to an st.stop() or an uncaught exception).         *)
(*                                                                         *)
(* st.session_state is modelled as what it is, a dictionary: a function    *)
(* from key strings to values, "k in st.session_state" being               *)
(* k \in DOMAIN session_state.  Every key, once set, is taken to persist   *)
(* from one script run to the next; the reviewer can only act on a widget  *)
(* that the last run rendered (the variable screen).                       *)
(***************************************************************************)
EXTENDS Integers, Sequences, FiniteSets, TLC

VARIABLES
    table,          \* the rows of data/Manual_Review.csv (or the built-in fixture)
    df,             \* the DataFrame load_data() returned in the last script run
    session_state,  \* st.session_state
    now,            \* the wall clock, in seconds
    field_order,    \* iteration order of the process's set-of-strings (hash seed)
    screen,         \* what the last script run rendered
    export,         \* what the last script run's export_audit_trail call did
    nsaves,         \* number of times the "Save Batch Review" handler has run
    limits,         \* the bounds of the session being explored (never changes)
    versions_in,    \* input of generate_comparison_pairs (pair specification)
    pairs_out,      \* its result
    args,           \* arguments of the function under check (export, embed)
    result,         \* what embed_pdf_with_fallback returned and what it called
    phase           \* "input" until the function under check has been applied

vars == <<table, df, session_state, now, field_order, screen, export, nsaves,
          limits, versions_in, pairs_out, args, result, phase>>

(***************************************************************************)
(* Bounds of the model.                                                    *)
(***************************************************************************)
MaxRows == 2        \* rows of the source table in the catalog specification
VersionMax == 7     \* versions are drawn from 1..VersionMax in the pair specification
MaxAudit == 2       \* saves in a session that exercises the review inputs
MaxSelSaves == 2    \* saves in a session that exercises the selections
MaxClock == 1       \* seconds the wall clock may advance in a session

\* Batch identifiers, in ascending (lexicographic) order.
BatchNames == <<"B001", "B002", "B003">>
PortalStatuses == {"Pending", "Accepted"}
Reasons == {"", "Approved by agent"}
NotesValues == {"", "looks fine"}

(***************************************************************************)
(* Generic helpers (Python built-ins).                                     *)
(***************************************************************************)
Range(f) == {f[i] : i \in DOMAIN f}

\* dict.get(key, default)
Get(d, key, default) == IF key \in DOMAIN d THEN d[key] ELSE default

\* d[key] = value on a dictionary
SetKey(d, key, value) ==
    [k \in DOMAIN d \cup {key} |-> IF k = key THEN value ELSE d[k]]

Min(S) == CHOOSE x \in S : \A y \in S : x <= y

\* A local assignment: v is evaluated once and F applied to its value
\* (x = v; ... F(x) ...).
Bind(v, F(_)) == CHOOSE r \in {F(x) : x \in {v}} : TRUE

\* sorted(S) for a set of integers
RECURSIVE SortedInts(_)
SortedInts(S) ==
    IF S = {} THEN <<>> ELSE <<Min(S)>> \o SortedInts(S \ {Min(S)})

\* sorted(S) for a set of batch identifiers
SortedBatches(S) == SelectSeq(BatchNames, LAMBDA b : b \in S)

\* datetime.now().strftime("%Y-%m-%d %H:%M:%S"): second precision
Strftime(t) == "T" \o ToString(t)

\* datetime.now().strftime("%Y-%m-%d"): day precision
Strfdate(t) == "D" \o ToString(t \div 86400)

(***************************************************************************)
(* utils.py: load_data                                                     *)
(***************************************************************************)
DocTypes == <<"CI", "PL">>

\* The built-in sample table (utils.py:22-27).
FixtureTable ==
    << [Batch |-> "B001", batch_count |-> 1, portal_status |-> "Pending",
        reason |-> ""],
       [Batch |-> "B001", batch_count |-> 2, portal_status |-> "Accepted",
        reason |-> "Approved by agent"],
       [Batch |-> "B002", batch_count |-> 1, portal_status |-> "Rejected",
        reason |-> "Missing information"],
       [Batch |-> "B002", batch_count |-> 2, portal_status |-> "Pending",
        reason |-> ""],
       [Batch |-> "B003", batch_count |-> 1, portal_status |-> "Accepted",
        reason |-> "Complete documentation"] >>

\* The expansion, were the loop over the document types to stop after CI.
RowRecords_oneType(row, t) ==
    LET batch == row.Batch
        count == row.batch_count
        portal_status == Get(row, "portal_status", "Unknown")
        reason == Get(row, "reason", "")
    IN  [i \in 1..1 |->
            [batch |-> batch, type |-> DocTypes[i], version |-> count,
             file_path |-> DocTypes[i] \o "/" \o batch \o "/" \o batch \o "_"
                           \o ToString(count) \o ".pdf",
             filename |-> batch \o "_" \o ToString(count) \o ".pdf",
             timestamp |-> Strftime(t),
             portal_status |-> portal_status, reason |-> reason]]

\* The two records one row expands to (utils.py:32-48), in append order.
RowRecords(row, t) ==
    LET batch == row.Batch
        count == row.batch_count
        portal_status == Get(row, "portal_status", "Unknown")
        reason == Get(row, "reason", "")
    IN  [i \in 1..Len(DocTypes) |->
            [batch |-> batch, type |-> DocTypes[i], version |-> count,
             file_path |-> DocTypes[i] \o "/" \o batch \o "/" \o batch \o "_"
                           \o ToString(count) \o ".pdf",
             filename |-> batch \o "_" \o ToString(count) \o ".pdf",
             timestamp |-> Strftime(t),
             portal_status |-> portal_status, reason |-> reason]]

RECURSIVE load_data(_, _)
load_data(tbl, t) ==
    IF tbl = <<>> THEN <<>>
    ELSE RowRecords(Head(tbl), t) \o load_data(Tail(tbl), t)

(***************************************************************************)
(* utils.py: generate_comparison_pairs                                     *)
(***************************************************************************)
\* The generator, were it to leave out the first-versus-last pair.
generate_comparison_pairs_noExtra(versions) ==
    IF Len(versions) < 2 THEN <<>>
    ELSE [i \in 1..(Len(versions) - 1) |-> <<versions[i], versions[i + 1]>>]

generate_comparison_pairs(versions) ==
    IF Len(versions) < 2 THEN <<>>
    ELSE LET pairs == [i \in 1..(Len(versions) - 1) |->
                          <<versions[i], versions[i + 1]>>]
         IN  IF Len(versions) > 2
             THEN Append(pairs, <<versions[1], versions[Len(versions)]>>)
             ELSE pairs

(***************************************************************************)
(* Values the session variables hold while a pure function is checked.     *)
(***************************************************************************)
EmptyDict == [k \in {} |-> 0]
NoScreen == [rendered |-> "nothing"]
NoExport == [called |-> FALSE]
NoLimits == [saves |-> 0, ticks |-> 0, edits |-> FALSE]
NoArgs == [function |-> "none"]
NoResult == [returned |-> FALSE]

SessionIdle ==
    /\ session_state = EmptyDict
    /\ field_order = <<>>
    /\ screen = NoScreen
    /\ export = NoExport
    /\ nsaves = 0
    /\ limits = NoLimits
    /\ args = NoArgs
    /\ result = NoResult

(***************************************************************************)
(* Catalog specification: load_data applied to every bounded table.        *)
(***************************************************************************)
FullRows ==
    [Batch : {BatchNames[1], BatchNames[2]}, batch_count : 1..2,
     portal_status : PortalStatuses, reason : Reasons]

\* Rows of a table that lacks the optional columns portal_status and reason.
BareRows == [Batch : {BatchNames[1], BatchNames[2]}, batch_count : 1..2]

SeqsUpTo(S, n) == UNION {[1..k -> S] : k \in 0..n}

LoadTables == SeqsUpTo(FullRows, MaxRows) \cup SeqsUpTo(BareRows, MaxRows)

InitLoad ==
    /\ table \in LoadTables
    /\ df = <<>>
    /\ now \in 0..MaxClock
    /\ phase = "input"
    /\ versions_in = <<>>
    /\ pairs_out = <<>>
    /\ SessionIdle

LoadData ==
    /\ phase = "input"
    /\ df' = load_data(table, now)
    /\ phase' = "done"
    /\ UNCHANGED <<table, session_state, now, field_order, screen, export,
                   nsaves, limits, versions_in, pairs_out, args, result>>

NextLoad == LoadData

SpecLoad == InitLoad /\ [][NextLoad]_vars

(***************************************************************************)
(* Pair specification: generate_comparison_pairs applied to every sorted   *)
(* list of distinct versions drawn from 1..VersionMax.                     *)
(***************************************************************************)
InitPairs ==
    /\ versions_in \in {SortedInts(S) : S \in SUBSET (1..VersionMax)}
    /\ pairs_out = <<>>
    /\ phase = "input"
    /\ table = <<>>
    /\ df = <<>>
    /\ now = 0
    /\ SessionIdle

GeneratePairs ==
    /\ phase = "input"
    /\ pairs_out' = generate_comparison_pairs(versions_in)
    /\ phase' = "done"
    /\ UNCHANGED <<table, df, session_state, now, field_order, screen, export,
                   nsaves, limits, versions_in, args, result>>

NextPairs == GeneratePairs

SpecPairs == InitPairs /\ [][NextPairs]_vars

(***************************************************************************)
(* utils.py: export_audit_trail                                            *)
(***************************************************************************)
\* The keys of the entry the save handler builds (app.py:185-193).
AuditKeys ==
    {"timestamp", "batch", "doc_type", "v1_v2", "status", "notes", "decision"}

\* Orders in which a process may enumerate a set of these strings
\* (utils.py:252, list(all_keys): the order of a set is unspecified).
FieldOrders ==
    { <<"timestamp", "batch", "doc_type", "v1_v2", "status", "notes",
        "decision">>,
      <<"decision", "notes", "status", "v1_v2", "doc_type", "batch",
        "timestamp">> }

\* Outcomes of the external storage write: upload_file_to_s3 lives in
\* s3_utils, which is not part of the sources; the specification gives the
\* write one failure, AccessError, surfaced as an error to the caller.
UploadOutcomes == {"ok", "AccessError"}

upload_file_to_s3(outcome) == IF outcome = "ok" THEN "done" ELSE "raised"

\* csv.DictWriter: the header, then one row per entry, a missing key
\* (row.get(key) is None) written as the empty cell.
\* A writer that leaves out the cells of the columns an entry lacks.
CsvText_ragged(audit_trail, fieldnames) ==
    <<fieldnames>> \o
    [i \in 1..Len(audit_trail) |->
        Bind(SelectSeq(fieldnames, LAMBDA k : k \in DOMAIN audit_trail[i]),
             LAMBDA own : [j \in 1..Len(own) |-> audit_trail[i][own[j]]])]

CsvText(audit_trail, fieldnames) ==
    <<fieldnames>> \o
    [i \in 1..Len(audit_trail) |->
        [j \in 1..Len(fieldnames) |-> Get(audit_trail[i], fieldnames[j], "")]]

\* An export that serializes and uploads whatever the list holds.
export_audit_trail_noGuard(audit_trail, order, outcome, t) ==
    Bind(UNION {DOMAIN audit_trail[i] : i \in 1..Len(audit_trail)},
         LAMBDA all_keys :
    Bind(SelectSeq(order, LAMBDA k : k \in all_keys), LAMBDA fieldnames :
    Bind(CsvText(audit_trail, fieldnames), LAMBDA text :
    Bind([attempted |-> TRUE,
          key |-> "audit/audit_trails/" \o Strfdate(t) \o "/audit_trail.csv",
          body |-> text], LAMBDA up :
         IF upload_file_to_s3(outcome) = "raised"
         THEN [called |-> TRUE, result |-> "raised", text |-> <<>>,
               upload |-> up]
         ELSE [called |-> TRUE, result |-> "returned", text |-> text,
               upload |-> up]))))

\* The call's observable result: what came back to the caller ("returned"
\* with the text, or "raised"), and what was handed to the storage write.
export_audit_trail(audit_trail, order, outcome, t) ==
    IF audit_trail = <<>>
    THEN [called |-> TRUE, result |-> "returned", text |-> <<>>,
          upload |-> [attempted |-> FALSE]]
    ELSE Bind(UNION {DOMAIN audit_trail[i] : i \in 1..Len(audit_trail)},
              LAMBDA all_keys :
         Bind(SelectSeq(order, LAMBDA k : k \in all_keys), LAMBDA fieldnames :
         Bind(CsvText(audit_trail, fieldnames), LAMBDA text :
         Bind([attempted |-> TRUE,
               key |-> "audit/audit_trails/" \o Strfdate(t) \o "/audit_trail.csv",
               body |-> text], LAMBDA up :
              IF upload_file_to_s3(outcome) = "raised"
              THEN [called |-> TRUE, result |-> "raised", text |-> <<>>,
                    upload |-> up]
              ELSE [called |-> TRUE, result |-> "returned", text |-> text,
                    upload |-> up]))))

(***************************************************************************)
(* Export specification: export_audit_trail applied to every bounded list  *)
(* of entries, entries with different key sets included.                   *)
(***************************************************************************)
MaxEntries == 3     \* entries of the list handed to export_audit_trail

ExportKeys == {"decision", "notes"}
ExportValues == {"Accept", "looks fine"}

\* Dictionaries over any subset of ExportKeys (the empty dictionary too).
Entries == UNION {[K -> ExportValues] : K \in SUBSET ExportKeys}

InitExport ==
    /\ args \in [function : {"export_audit_trail"},
                 audit_trail : SeqsUpTo(Entries, MaxEntries),
                 outcome : UploadOutcomes]
    /\ field_order \in FieldOrders
    /\ export = NoExport
    /\ phase = "input"
    /\ table = <<>>
    /\ df = <<>>
    /\ now = 0
    /\ session_state = EmptyDict
    /\ screen = NoScreen
    /\ nsaves = 0
    /\ limits = NoLimits
    /\ versions_in = <<>>
    /\ pairs_out = <<>>
    /\ result = NoResult

ExportAuditTrail ==
    /\ phase = "input"
    /\ export' = export_audit_trail(args.audit_trail, field_order,
                                    args.outcome, now)
    /\ phase' = "done"
    /\ UNCHANGED <<table, df, session_state, now, field_order, screen, nsaves,
                   limits, versions_in, pairs_out, args, result>>

NextExport == ExportAuditTrail

SpecExport == InitExport /\ [][NextExport]_vars

(***************************************************************************)
(* utils.py: embed_pdf_with_fallback and its three strategies              *)
(*                                                                         *)
(* An HTML string is modelled as the sequence of its tokens, white space   *)
(* included, so that strip() and startswith() do on it what they do on the *)
(* string.  The object store is outside the program: what a strategy's     *)
(* calls to it do is an input (ok, or the exception they end with).        *)
(***************************************************************************)
Whitespace == {" ", "\n"}
RedP == "<p style='color:red'>"

RECURSIVE lstrip(_)
lstrip(html) ==
    IF html # <<>> /\ Head(html) \in Whitespace THEN lstrip(Tail(html)) ELSE html

RECURSIVE rstrip(_)
rstrip(html) ==
    IF html # <<>> /\ html[Len(html)] \in Whitespace
    THEN rstrip(SubSeq(html, 1, Len(html) - 1))
    ELSE html

strip(html) == rstrip(lstrip(html))

startswith(html, prefix) ==
    Len(html) >= Len(prefix) /\ SubSeq(html, 1, Len(prefix)) = prefix

\* base64.b64encode of the object stored under s3_key
Base64Pdf(s3_key) == "b64[" \o s3_key \o "]"

\* utils.py:425-455
PdfjsOutcomes == {"ok", "404", "ClientError", "Exception"}

embed_pdf_with_pdfjs_viewer(s3_key, outcome) ==
    CASE outcome = "ok" ->
            <<"\n", " ", "<div style=\"width:100%; height:800px;\">", "\n", " ",
              "<iframe src=\"https://cdnjs.cloudflare.com/ajax/libs/pdf.js/3.4.120/web/viewer.html?file=data:application/pdf;base64,"
                  \o Base64Pdf(s3_key) \o "\">",
              "</iframe>", "\n", " ", "</div>", "\n", " ">>
      [] outcome = "404" ->
            <<RedP, "PDF not found: " \o s3_key, "</p>">>
      [] OTHER ->
            <<RedP, "Error displaying PDF: " \o outcome, "</p>">>

\* utils.py:359-389
CallOutcomes == {"ok", "Exception"}

embed_pdf_with_presigned_url(s3_key, outcome) ==
    IF outcome = "ok"
    THEN <<"\n", " ", "<div style=\"width:100%; height:800px;\">", "\n", " ",
           "<iframe src=\"https://presigned/" \o s3_key \o "\">", "</iframe>",
           "\n", " ", "</div>", "\n", " ">>
    ELSE <<RedP, "Error generating pre-signed URL: " \o outcome, "</p>">>

\* utils.py:321-348
embed_pdf_base64(file_path_or_s3key, outcome) ==
    IF outcome = "ok"
    THEN <<"\n", " ",
           "<iframe src=\"data:application/pdf;base64,"
               \o Base64Pdf(file_path_or_s3key) \o "\">",
           "</iframe>", "\n", " ">>
    ELSE <<RedP, "Error displaying PDF: Error accessing S3: " \o outcome, "</p>">>

\* A driver that goes on to the third strategy whatever the second returned.
embed_pdf_with_fallback_noSecondTest(s3_key, env) ==
    Bind(embed_pdf_with_pdfjs_viewer(s3_key, env.pdfjs), LAMBDA html1 :
        IF html1 = <<>> \/ startswith(strip(html1), <<RedP>>)
        THEN [html |-> embed_pdf_base64(s3_key, env.base64),
              calls |-> <<"embed_pdf_with_pdfjs_viewer",
                          "embed_pdf_with_presigned_url",
                          "embed_pdf_base64">>]
        ELSE [html |-> html1, calls |-> <<"embed_pdf_with_pdfjs_viewer">>])

\* utils.py:350-357.  The result is the string returned and, in order, the
\* strategies that were called.
embed_pdf_with_fallback(s3_key, env) ==
    Bind(embed_pdf_with_pdfjs_viewer(s3_key, env.pdfjs), LAMBDA html1 :
        IF html1 = <<>> \/ startswith(strip(html1), <<RedP>>)
        THEN Bind(embed_pdf_with_presigned_url(s3_key, env.presigned),
                  LAMBDA html2 :
                 IF html2 = <<>> \/ startswith(strip(html2), <<RedP>>)
                 THEN [html |-> embed_pdf_base64(s3_key, env.base64),
                       calls |-> <<"embed_pdf_with_pdfjs_viewer",
                                   "embed_pdf_with_presigned_url",
                                   "embed_pdf_base64">>]
                 ELSE [html |-> html2,
                       calls |-> <<"embed_pdf_with_pdfjs_viewer",
                                   "embed_pdf_with_presigned_url">>])
        ELSE [html |-> html1, calls |-> <<"embed_pdf_with_pdfjs_viewer">>])

(***************************************************************************)
(* Embed specification: embed_pdf_with_fallback applied to every key the   *)
(* display passes (app.py:208, 217: a file_path of the catalog, or '' when *)
(* the row is missing) under every outcome of the three strategies.        *)
(***************************************************************************)
EmbedKeys ==
    {""} \cup {load_data(FixtureTable, 0)[i].file_path :
                  i \in 1..Len(load_data(FixtureTable, 0))}

InitEmbed ==
    /\ args \in [function : {"embed_pdf_with_fallback"},
                 s3_key : EmbedKeys,
                 env : [pdfjs : PdfjsOutcomes, presigned : CallOutcomes,
                        base64 : CallOutcomes]]
    /\ result = NoResult
    /\ phase = "input"
    /\ table = <<>>
    /\ df = <<>>
    /\ now = 0
    /\ session_state = EmptyDict
    /\ field_order = <<>>
    /\ screen = NoScreen
    /\ export = NoExport
    /\ nsaves = 0
    /\ limits = NoLimits
    /\ versions_in = <<>>
    /\ pairs_out = <<>>

EmbedPdfWithFallback ==
    /\ phase = "input"
    /\ \E r \in {embed_pdf_with_fallback(args.s3_key, args.env)} :
          result' = [returned |-> TRUE, html |-> r.html, calls |-> r.calls]
    /\ phase' = "done"
    /\ UNCHANGED <<table, df, session_state, now, field_order, screen, export,
                   nsaves, limits, versions_in, pairs_out, args>>

NextEmbed == EmbedPdfWithFallback

SpecEmbed == InitEmbed /\ [][NextEmbed]_vars

(***************************************************************************)
(* app.py: the script                                                      *)
(***************************************************************************)
Decisions == <<"Accept", "Reject", "Request More Information">>

SetDefault(d, key, value) == IF key \in DOMAIN d THEN d ELSE SetKey(d, key, value)

\* app.py:53-63
InitSessionState(ss) ==
    Bind(SetDefault(ss, "batch_statuses", EmptyDict), LAMBDA s1 :
    Bind(SetDefault(s1, "audit_trail", <<>>), LAMBDA s2 :
    Bind(SetDefault(s2, "review_notes", ""), LAMBDA s3 :
         SetDefault(s3, "review_decision", "Accept"))))

\* sorted(filtered['version'].unique()) for the rows of (batch, doc_type)
\* (app.py:76-78 and 142-144)
Versions(d, batch, doc_type) ==
    SortedInts({d[i].version :
                  i \in {j \in 1..Len(d) : d[j].batch = batch /\ d[j].type = doc_type}})

\* app.py:74-84
update_document_options(ss, d) ==
    Bind(Versions(d, ss.batch, ss.doc_type), LAMBDA versions :
        IF Len(versions) >= 1
        THEN Bind(IF "version_1" \notin DOMAIN ss
                     \/ ss.version_1 \notin Range(versions)
                  THEN SetKey(ss, "version_1", versions[1])
                  ELSE ss,
                  LAMBDA s1 :
                      IF "version_2" \notin DOMAIN s1
                         \/ s1.version_2 \notin Range(versions)
                      THEN SetKey(s1, "version_2",
                                  IF Len(versions) > 1 THEN versions[2]
                                  ELSE versions[1])
                      ELSE s1)
        ELSE ss)

\* app.py:86-89
StatusKey(batch, doc_type) == batch \o "/" \o doc_type

get_batch_status(ss, batch, doc_type) ==
    Get(Get(ss, "batch_statuses", EmptyDict), StatusKey(batch, doc_type), "not-reviewed")

\* app.py:161-165: the handler of the button of pair (v1, v2)
ClickComparison_marksReviewed(ss, pair) ==
    SetKey(SetKey(SetKey(SetKey(ss, "selected_comparison", pair),
                         "version_1", pair[1]),
                  "version_2", pair[2]),
           "batch_statuses",
           SetKey(ss.batch_statuses, ss.batch \o "/" \o ss.doc_type, "reviewed"))

ClickComparison(ss, pair) ==
    SetKey(SetKey(SetKey(ss, "selected_comparison", pair),
                  "version_1", pair[1]),
           "version_2", pair[2])

\* app.py:189
PairLabel(v1, v2) == ToString(v1) \o "-" \o ToString(v2)

\* The handler, were it to overwrite the audit list instead of appending.
SaveBatchReview_overwrite(ss, t) ==
    LET key == StatusKey(ss.batch, ss.doc_type)
        entry == [timestamp |-> Strftime(t),
                  batch |-> ss.batch,
                  doc_type |-> ss.doc_type,
                  v1_v2 |-> PairLabel(ss.version_1, ss.version_2),
                  status |-> "reviewed",
                  notes |-> ss.review_notes,
                  decision |-> ss.review_decision]
    IN  SetKey(SetKey(ss, "batch_statuses",
                      SetKey(ss.batch_statuses, key, "reviewed")),
               "audit_trail", <<entry>>)

\* The handler, were it to rebuild the status map from the saved key alone.
SaveBatchReview_resetStatuses(ss, t) ==
    LET key == StatusKey(ss.batch, ss.doc_type)
        entry == [timestamp |-> Strftime(t),
                  batch |-> ss.batch,
                  doc_type |-> ss.doc_type,
                  v1_v2 |-> PairLabel(ss.version_1, ss.version_2),
                  status |-> "reviewed",
                  notes |-> ss.review_notes,
                  decision |-> ss.review_decision]
    IN  SetKey(SetKey(ss, "batch_statuses", SetKey(EmptyDict, key, "reviewed")),
               "audit_trail", Append(ss.audit_trail, entry))

\* The handler, were it to leave the notes out of the entry.
SaveBatchReview_noNotes(ss, t) ==
    LET key == StatusKey(ss.batch, ss.doc_type)
        entry == [timestamp |-> Strftime(t),
                  batch |-> ss.batch,
                  doc_type |-> ss.doc_type,
                  v1_v2 |-> PairLabel(ss.version_1, ss.version_2),
                  status |-> "reviewed",
                  notes |-> "",
                  decision |-> ss.review_decision]
    IN  SetKey(SetKey(ss, "batch_statuses",
                      SetKey(ss.batch_statuses, key, "reviewed")),
               "audit_trail", Append(ss.audit_trail, entry))

\* The handler, were it to append the entry without marking the key.
SaveBatchReview_noStatus(ss, t) ==
    LET entry == [timestamp |-> Strftime(t),
                  batch |-> ss.batch,
                  doc_type |-> ss.doc_type,
                  v1_v2 |-> PairLabel(ss.version_1, ss.version_2),
                  status |-> "reviewed",
                  notes |-> ss.review_notes,
                  decision |-> ss.review_decision]
    IN  SetKey(ss, "audit_trail", Append(ss.audit_trail, entry))

\* app.py:182-194: the handler of "Save Batch Review"
SaveBatchReview(ss, t) ==
    LET key == StatusKey(ss.batch, ss.doc_type)
        entry == [timestamp |-> Strftime(t),
                  batch |-> ss.batch,
                  doc_type |-> ss.doc_type,
                  v1_v2 |-> PairLabel(ss.version_1, ss.version_2),
                  status |-> "reviewed",
                  notes |-> ss.review_notes,
                  decision |-> ss.review_decision]
    IN  SetKey(SetKey(ss, "batch_statuses",
                      SetKey(ss.batch_statuses, key, "reviewed")),
               "audit_trail", Append(ss.audit_trail, entry))

\* app.py:198-218: what the two panes show for selected_comparison: the
\* version and the file_path of its row among the rows of the active key
\* ('' when there is no such row).
PanePath(d, batch, doc_type, v) ==
    LET rows == {j \in 1..Len(d) :
                   d[j].batch = batch /\ d[j].type = doc_type /\ d[j].version = v}
    IN  IF rows = {} THEN "" ELSE d[Min(rows)].file_path

Display(ss, d) ==
    [pair |-> ss.selected_comparison,
     paths |-> <<PanePath(d, ss.batch, ss.doc_type, ss.selected_comparison[1]),
                 PanePath(d, ss.batch, ss.doc_type, ss.selected_comparison[2])>>]

NoEvent == [type |-> "none"]

\* One execution of the script (app.py:52-264) on session state ss0, with
\* the widget event ev that triggered it and the outcome the storage write
\* will have should the run reach it.  The result holds the session state
\* the run leaves, the DataFrame it loaded, what it rendered, what its
\* export call did and whether the save handler ran.
Script(ss0, tbl, t, order, ev, outcome) ==
    Bind(load_data(tbl, t), LAMBDA d :
    Bind(InitSessionState(ss0), LAMBDA s1 :
    Bind(SortedBatches({d[i].batch : i \in 1..Len(d)}), LAMBDA batches :
    Bind(IF "batch" \notin DOMAIN s1 /\ batches # <<>>
         THEN SetKey(s1, "batch", batches[1]) ELSE s1, LAMBDA s2 :
    Bind(SetDefault(s2, "doc_type", "CI"), LAMBDA s3 :
    IF "batch" \notin DOMAIN s3
    THEN \* an empty table: line 99 / line 76 raise, nothing is rendered
         [ss |-> s3, df |-> d, screen |-> [rendered |-> "exception"],
          export |-> NoExport, saved |-> FALSE]
    ELSE
    Bind(update_document_options(s3, d), LAMBDA s4 :
    Bind(IF s4.audit_trail # <<>>
         THEN export_audit_trail(s4.audit_trail, order, outcome, t)
         ELSE NoExport, LAMBDA exp :
    IF exp.called /\ exp.result = "raised"
    THEN \* line 128 raises: the run ends below the batch selectbox
         [ss |-> s4, df |-> d, screen |-> [rendered |-> "export_error"],
          export |-> exp, saved |-> FALSE]
    ELSE
    Bind(Versions(d, s4.batch, s4.doc_type), LAMBDA versions :
    IF Len(versions) < 2
    THEN \* line 146-148: st.stop()
         [ss |-> s4, df |-> d,
          screen |-> [rendered |-> "stopped", download |-> exp.called],
          export |-> exp, saved |-> FALSE]
    ELSE
    Bind(generate_comparison_pairs(versions), LAMBDA pairs :
    Bind(SetDefault(s4, "selected_comparison", <<versions[1], versions[2]>>),
         LAMBDA s5 :
    Bind(IF ev.type = "pair" /\ ev.pair \in Range(pairs)
         THEN ClickComparison(s5, ev.pair) ELSE s5, LAMBDA s6 :
    Bind(IF ev.type = "save" THEN SaveBatchReview(s6, t) ELSE s6, LAMBDA s7 :
         [ss |-> s7, df |-> d,
          screen |-> [rendered |-> "full", download |-> exp.called,
                      buttons |-> pairs, display |-> Display(s7, d)],
          export |-> exp, saved |-> (ev.type = "save")]))))))))))))

(***************************************************************************)
(* Session specification: one reviewer, one interaction at a time.         *)
(***************************************************************************)
\* A table whose batches have different version sets.
StaggeredTable ==
    << [Batch |-> "B001", batch_count |-> 1, portal_status |-> "Accepted",
        reason |-> ""],
       [Batch |-> "B001", batch_count |-> 2, portal_status |-> "Pending",
        reason |-> ""],
       [Batch |-> "B001", batch_count |-> 3, portal_status |-> "Pending",
        reason |-> ""],
       [Batch |-> "B002", batch_count |-> 1, portal_status |-> "Pending",
        reason |-> ""],
       [Batch |-> "B002", batch_count |-> 2, portal_status |-> "Pending",
        reason |-> ""] >>

\* A table of one batch with two versions.
SingleBatchTable == SubSeq(FixtureTable, 1, 2)

\* The sessions explored: the table the session loads, and how far the
\* session goes (saves made, seconds elapsed, whether the reviewer edits
\* the decision and the notes).
Sessions ==
    { [table |-> FixtureTable,
       limits |-> [saves |-> MaxSelSaves, ticks |-> 0, edits |-> FALSE]],
      [table |-> StaggeredTable,
       limits |-> [saves |-> MaxSelSaves, ticks |-> 0, edits |-> FALSE]],
      [table |-> SingleBatchTable,
       limits |-> [saves |-> MaxAudit, ticks |-> 0, edits |-> TRUE]],
      [table |-> SingleBatchTable,
       limits |-> [saves |-> MaxSelSaves, ticks |-> MaxClock, edits |-> FALSE]],
      [table |-> <<>>,
       limits |-> [saves |-> MaxSelSaves, ticks |-> 0, edits |-> FALSE]] }

Init ==
    /\ \E s \in Sessions : table = s.table /\ limits = s.limits
    /\ df = <<>>
    /\ session_state = EmptyDict
    /\ now = 0
    /\ field_order \in FieldOrders
    /\ screen = NoScreen
    /\ export = NoExport
    /\ nsaves = 0
    /\ versions_in = <<>>
    /\ pairs_out = <<>>
    /\ args = NoArgs
    /\ result = NoResult
    /\ phase = "session"

\* The script runs on session state ss with event ev.
Rerun(ss, ev) ==
    \E outcome \in UploadOutcomes :
        \E r \in {Script(ss, table, now, field_order, ev, outcome)} :
            /\ session_state' = r.ss
            /\ df' = r.df
            /\ screen' = r.screen
            /\ export' = r.export
            /\ nsaves' = IF r.saved THEN nsaves + 1 ELSE nsaves
            /\ UNCHANGED <<table, now, field_order, limits, versions_in,
                           pairs_out, args, result, phase>>

BatchSelectShown == screen.rendered \in {"export_error", "stopped", "full"}
DocTypeRadioShown == screen.rendered \in {"stopped", "full"}
ReviewShown == screen.rendered = "full"

\* The reviewer opens the page: the first script run.
Visit ==
    /\ screen.rendered = "nothing"
    /\ Rerun(session_state, NoEvent)

\* The wall clock advances.
Tick ==
    /\ now < limits.ticks
    /\ now' = now + 1
    /\ UNCHANGED <<table, df, session_state, field_order, screen, export, nsaves,
                   limits, versions_in, pairs_out, args, result, phase>>

\* app.py:124 and 66-68: the selectbox takes the value b, on_batch_change
\* runs, then the script.
SelectBatch ==
    /\ BatchSelectShown
    /\ \E b \in {df[i].batch : i \in 1..Len(df)} \ {session_state.batch} :
          Rerun(update_document_options(SetKey(session_state, "batch", b), df),
                NoEvent)

\* app.py:139-140 and 70-72
SelectDocType ==
    /\ DocTypeRadioShown
    /\ \E ty \in Range(DocTypes) \ {session_state.doc_type} :
          Rerun(update_document_options(SetKey(session_state, "doc_type", ty), df),
                NoEvent)

\* app.py:157-165: one of the rendered comparison buttons is clicked.
SelectComparison ==
    /\ ReviewShown
    /\ \E i \in 1..Len(screen.buttons) :
          Rerun(session_state, [type |-> "pair", pair |-> screen.buttons[i]])

\* app.py:177-178
EditDecision ==
    /\ ReviewShown
    /\ limits.edits
    /\ \E dec \in Range(Decisions) \ {session_state.review_decision} :
          Rerun(SetKey(session_state, "review_decision", dec), NoEvent)

\* app.py:180
EditNotes ==
    /\ ReviewShown
    /\ limits.edits
    /\ \E n \in NotesValues \ {session_state.review_notes} :
          Rerun(SetKey(session_state, "review_notes", n), NoEvent)

\* app.py:182: "Save Batch Review" is clicked.
ClickSave ==
    /\ ReviewShown
    /\ Len(session_state.audit_trail) < limits.saves
    /\ Rerun(session_state, [type |-> "save"])

\* app.py:126: the download button is clicked; the script runs again.
ClickDownload ==
    /\ screen.rendered \in {"stopped", "full"}
    /\ screen.download
    /\ Rerun(session_state, NoEvent)

Next ==
    \/ Visit
    \/ Tick
    \/ SelectBatch
    \/ SelectDocType
    \/ SelectComparison
    \/ EditDecision
    \/ EditNotes
    \/ ClickSave
    \/ ClickDownload

Spec == Init /\ [][Next]_vars

(***************************************************************************)
(* Properties of the session.                                              *)
(***************************************************************************)
AuditTrail == Get(session_state, "audit_trail", <<>>)
Statuses == Get(session_state, "batch_statuses", EmptyDict)
HasKey == {"batch", "doc_type"} \subseteq DOMAIN session_state
ActiveVersions == Versions(df, session_state.batch, session_state.doc_type)

\* Every (batch, document type) of the loaded table.
AllKeys == {<<BatchNames[i], ty>> : i \in 1..Len(BatchNames), ty \in Range(DocTypes)}

IsPrefix(a, b) == Len(a) <= Len(b) /\ \A i \in 1..Len(a) : a[i] = b[i]

\* ------------------------------------------------------------------------
\* C1: whenever the active (batch, type) has at least two versions, the
\* comparison pair held in session state (version_1/version_2 and
\* selected_comparison) has two different versions, both among the versions
\* of the active (batch, type).
C1_PairValid ==
    (HasKey /\ screen.rendered # "nothing" /\ Len(ActiveVersions) >= 2) =>
        /\ session_state.version_1 # session_state.version_2
        /\ {session_state.version_1, session_state.version_2}
              \subseteq Range(ActiveVersions)
        /\ "selected_comparison" \in DOMAIN session_state =>
              /\ session_state.selected_comparison[1]
                    # session_state.selected_comparison[2]
              /\ Range(session_state.selected_comparison)
                    \subseteq Range(ActiveVersions)

\* ------------------------------------------------------------------------
\* C2: a change of batch or document type that leaves a version of the
\* chosen pair outside the new key's versions resets the whole pair to the
\* first two sorted versions of the new key, and no key change alters only
\* one end of the pair.
KeyChanged ==
    /\ HasKey
    /\ \/ session_state'.batch # session_state.batch
       \/ session_state'.doc_type # session_state.doc_type

C2_ResetStep ==
    KeyChanged =>
        LET v == Versions(df', session_state'.batch, session_state'.doc_type)
            old1 == session_state.version_1
            old2 == session_state.version_2
            new1 == session_state'.version_1
            new2 == session_state'.version_2
        IN  Len(v) >= 2 =>
              /\ (old1 \notin Range(v) \/ old2 \notin Range(v)) =>
                    /\ <<new1, new2>> = <<v[1], v[2]>>
                    /\ "selected_comparison" \in DOMAIN session_state' =>
                          session_state'.selected_comparison = <<v[1], v[2]>>
              /\ (new1 = old1) = (new2 = old2)

C2_WholesaleReset == [][C2_ResetStep]_vars

\* ------------------------------------------------------------------------
\* C3: the entry a save appends is labelled "vA-vB" for the pair (vA, vB)
\* selected and displayed at the moment of the save.
SaveStep == Len(AuditTrail') = Len(AuditTrail) + 1

C3_LabelStep ==
    SaveStep =>
        /\ screen'.rendered = "full"
        /\ AuditTrail'[Len(AuditTrail')].v1_v2 =
              PairLabel(screen'.display.pair[1], screen'.display.pair[2])
        /\ screen'.display.pair = session_state'.selected_comparison

C3_LabelIsSelection == [][C3_LabelStep]_vars

\* ------------------------------------------------------------------------
\* C4: the audit list is append-only: it has as many entries as the save
\* handler has run, and every step leaves the previous list a prefix of the
\* new one.
C4_AppendStep ==
    /\ IsPrefix(AuditTrail, AuditTrail')
    /\ Len(AuditTrail') = nsaves'

C4_AppendOnly == [][C4_AppendStep]_vars

C4_Witness ==
    /\ nsaves = 2
    /\ Len(AuditTrail) = 2
    /\ AuditTrail[1].doc_type # AuditTrail[2].doc_type
    /\ AuditTrail[1].decision # AuditTrail[2].decision
    /\ export.called

\* ------------------------------------------------------------------------
\* C5: a key with no save reads not-reviewed, and a key that reads reviewed
\* reads reviewed in every later state.
SavedKeys == {<<AuditTrail[i].batch, AuditTrail[i].doc_type>> : i \in 1..Len(AuditTrail)}

C5_UnsavedNotReviewed ==
    \A k \in AllKeys \ SavedKeys :
        get_batch_status(session_state, k[1], k[2]) = "not-reviewed"

C5_StaysReviewed ==
    \A k \in AllKeys :
        get_batch_status(session_state, k[1], k[2]) = "reviewed" =>
            get_batch_status(session_state', k[1], k[2]) = "reviewed"

C5_StatusMonotone == []C5_UnsavedNotReviewed /\ [][C5_StaysReviewed]_vars

C5_Witness ==
    /\ nsaves = 2
    /\ get_batch_status(session_state, "B001", "CI") = "reviewed"
    /\ get_batch_status(session_state, "B001", "PL") = "reviewed"
    /\ AuditTrail[1].doc_type = "CI"
    /\ session_state.doc_type = "CI"

\* ------------------------------------------------------------------------
\* C6: a save appends exactly one entry, for the active key, with status
\* "reviewed", the current notes and the current decision (one of the three
\* decisions; Accept in a session whose reviewer never edits it), and it sets
\* the status of that key to reviewed and of no other key.
C6_SaveStep ==
    nsaves' = nsaves + 1 =>
        LET e == AuditTrail'[Len(AuditTrail')]
            key == StatusKey(session_state.batch, session_state.doc_type)
        IN  /\ Len(AuditTrail') = Len(AuditTrail) + 1
            /\ SubSeq(AuditTrail', 1, Len(AuditTrail)) = AuditTrail
            /\ e.batch = session_state.batch
            /\ e.doc_type = session_state.doc_type
            /\ session_state'.batch = session_state.batch
            /\ session_state'.doc_type = session_state.doc_type
            /\ e.status = "reviewed"
            /\ e.notes = session_state.review_notes
            /\ e.decision = session_state.review_decision
            /\ e.decision \in Range(Decisions)
            /\ ~limits.edits => e.decision = "Accept"
            /\ DOMAIN Statuses' = DOMAIN Statuses \cup {key}
            /\ Statuses'[key] = "reviewed"
            /\ \A k \in DOMAIN Statuses \ {key} : Statuses'[k] = Statuses[k]

C6_SaveRecordsDecision == [][C6_SaveStep]_vars

C6_Witness ==
    /\ nsaves = 1
    /\ AuditTrail[1].notes = "looks fine"
    /\ AuditTrail[1].decision = "Request More Information"
    /\ AuditTrail[1].doc_type = "PL"
    /\ get_batch_status(session_state, "B001", "PL") = "reviewed"
    /\ get_batch_status(session_state, "B001", "CI") = "not-reviewed"

\* ------------------------------------------------------------------------
\* C10: an export of a non-empty audit list returns the serialized text to
\* the caller whether or not the storage write succeeds.
C10_ExportReturnsText ==
    (export.called /\ export.upload.attempted) =>
        /\ export.result = "returned"
        /\ export.text = export.upload.body
        /\ Len(export.text) >= 2

\* ------------------------------------------------------------------------
\* C8: for a sorted list v of n distinct versions, the result is empty when
\* n < 2, exactly <<(v[1], v[2])>> when n = 2, and for n > 2 the n-1 adjacent
\* pairs in ascending order followed by (first, last) as the n-th element.
C8_PairsShape ==
    phase = "done" =>
        LET v == versions_in
            n == Len(v)
            p == pairs_out
        IN  /\ n < 2 => p = <<>>
            /\ n = 2 => p = << <<v[1], v[2]>> >>
            /\ n > 2 =>
                /\ Len(p) = n
                /\ \A i \in 1..(n - 1) : p[i] = <<v[i], v[i + 1]>>
                /\ p[n] = <<v[1], v[n]>>

C8_Witness ==
    /\ phase = "done"
    /\ Len(versions_in) = 4
    /\ Len(pairs_out) = 4
    /\ pairs_out[4] = <<versions_in[1], versions_in[4]>>

\* ------------------------------------------------------------------------
\* C9: every row with the four columns expands into exactly two records, CI
\* then PL, with version = batch_count, storage key
\* "{type}/{batch}/{batch}_{version}.pdf" and the row's portal status and
\* reason; the catalog holds 2 x (number of rows) records.
C9_CatalogExpansion ==
    phase = "done" =>
        /\ Len(df) = 2 * Len(table)
        /\ \A r \in 1..Len(table) :
              {"portal_status", "reason"} \subseteq DOMAIN table[r] =>
                \A j \in 1..2 :
                    LET rec == df[2 * (r - 1) + j]
                        ty == IF j = 1 THEN "CI" ELSE "PL"
                        b == table[r].Batch
                        c == table[r].batch_count
                    IN  /\ rec.batch = b
                        /\ rec.type = ty
                        /\ rec.version = c
                        /\ rec.file_path =
                              ty \o "/" \o b \o "/" \o b \o "_" \o ToString(c)
                                 \o ".pdf"
                        /\ rec.portal_status = table[r].portal_status
                        /\ rec.reason = table[r].reason

C9_Witness ==
    /\ phase = "done"
    /\ Len(table) = 2
    /\ "reason" \in DOMAIN table[1]
    /\ table[1].Batch # table[2].Batch
    /\ Len(df) = 4
    /\ df[4].file_path = "PL/B002/B002_2.pdf"

\* ------------------------------------------------------------------------
\* C11: exporting an empty audit list returns the empty text and makes no
\* storage write; the storage write is attempted only for a non-empty list.
C11_EmptyExportSkipsUpload ==
    phase = "done" =>
        /\ args.audit_trail = <<>> =>
              /\ export.result = "returned"
              /\ export.text = <<>>
              /\ ~export.upload.attempted
        /\ export.upload.attempted => args.audit_trail # <<>>

C11_Witness ==
    /\ phase = "done"
    /\ args.audit_trail = <<>>
    /\ args.outcome = "AccessError"
    /\ export.called
    /\ export.result = "returned"
    /\ ~export.upload.attempted

\* ------------------------------------------------------------------------
\* C12: for a non-empty list, the serialized text is one header holding each
\* key of the union of the entries' keys once, then one row per entry in
\* list order, each row with one cell per header column: the entry's value,
\* or the empty string when the entry lacks the key.
C12_ExportShape ==
    (phase = "done" /\ args.audit_trail # <<>>) =>
        LET a == args.audit_trail
            body == export.upload.body
            header == body[1]
        IN  /\ export.upload.attempted
            /\ Len(body) = Len(a) + 1
            /\ Range(header) = UNION {DOMAIN a[i] : i \in 1..Len(a)}
            /\ Cardinality(Range(header)) = Len(header)
            /\ \A i \in 1..Len(a) :
                  /\ Len(body[i + 1]) = Len(header)
                  /\ \A j \in 1..Len(header) :
                        body[i + 1][j] =
                            IF header[j] \in DOMAIN a[i]
                            THEN a[i][header[j]]
                            ELSE ""
            /\ export.result = "returned" => export.text = body

C12_Witness ==
    /\ phase = "done"
    /\ Len(args.audit_trail) = 3
    /\ DOMAIN args.audit_trail[1] = {"decision"}
    /\ DOMAIN args.audit_trail[2] = {"notes"}
    /\ DOMAIN args.audit_trail[3] = {}
    /\ export.result = "returned"
    /\ export.text[1] = <<"notes", "decision">>
    /\ export.text[2] = <<"", "Accept">>
    /\ export.text[3] = <<"looks fine", "">>
    /\ export.text[4] = <<"", "">>

\* ------------------------------------------------------------------------
\* The catalog data of a DataFrame: the columns the script reads (app.py:76-78,
\* 99, 142-144, 203-221).  The load stamp of utils.py:45 and the filename
\* column are read nowhere.
Catalog(d) ==
    [i \in 1..Len(d) |->
        [batch |-> d[i].batch, type |-> d[i].type, version |-> d[i].version,
         file_path |-> d[i].file_path, portal_status |-> d[i].portal_status,
         reason |-> d[i].reason]]

\* C13: only a run of the save handler changes the review-status map or the
\* audit list (selecting a batch, a document type or a comparison pair,
\* exporting, editing the form and reloading the page leave both as they
\* were), and once loaded the catalog data is the same after every step.
C13_FrameStep ==
    /\ (AuditTrail' # AuditTrail \/ Statuses' # Statuses) => nsaves' = nsaves + 1
    /\ screen.rendered # "nothing" => Catalog(df') = Catalog(df)

C13_OnlySaveWrites == [][C13_FrameStep]_vars

\* get_batch_status only reads: it returns a status string and has no access
\* to the state it could write back to.
C13_Witness ==
    /\ nsaves = 1
    /\ Len(AuditTrail) = 1
    /\ export.called
    /\ session_state.batch # AuditTrail[1].batch
    /\ session_state.doc_type # AuditTrail[1].doc_type
    /\ screen.rendered = "full"
    /\ session_state.selected_comparison # screen.buttons[1]
    /\ get_batch_status(session_state, session_state.batch,
                        session_state.doc_type) = "not-reviewed"
    /\ get_batch_status(session_state, AuditTrail[1].batch,
                        AuditTrail[1].doc_type) = "reviewed"

\* ------------------------------------------------------------------------
\* C14: the script run in which a save appends its entry also serializes the
\* audit list and hands it to the storage write, and that export holds one
\* row for every entry saved so far, the entry of that save included.
C14_ExportStep ==
    nsaves' = nsaves + 1 =>
        /\ export'.called
        /\ export'.upload.attempted
        /\ Len(export'.upload.body) = Len(AuditTrail') + 1

C14_ExportAfterSave == [][C14_ExportStep]_vars

\* ------------------------------------------------------------------------
\* C15: the driver calls the PDF.js viewer, then the pre-signed URL, then the
\* base64 iframe, stopping at the first whose retrieval succeeded; it returns
\* the output of the last strategy it called, always returns, and what it
\* returns is the red error paragraph exactly when all three have failed.
Strategies ==
    <<"embed_pdf_with_pdfjs_viewer", "embed_pdf_with_presigned_url",
      "embed_pdf_base64">>

StrategyOutcome(i) ==
    CASE i = 1 -> args.env.pdfjs
      [] i = 2 -> args.env.presigned
      [] i = 3 -> args.env.base64

StrategyOutput(i) ==
    CASE i = 1 -> embed_pdf_with_pdfjs_viewer(args.s3_key, args.env.pdfjs)
      [] i = 2 -> embed_pdf_with_presigned_url(args.s3_key, args.env.presigned)
      [] i = 3 -> embed_pdf_base64(args.s3_key, args.env.base64)

C15_FallbackOrder ==
    phase = "done" =>
        LET n == Len(result.calls)
        IN  /\ result.returned
            /\ n \in 1..3
            /\ result.calls = SubSeq(Strategies, 1, n)
            /\ \A i \in 1..(n - 1) : StrategyOutcome(i) # "ok"
            /\ n < 3 => StrategyOutcome(n) = "ok"
            /\ result.html = StrategyOutput(n)
            /\ (Head(result.html) = RedP) <=>
                  (\A i \in 1..3 : StrategyOutcome(i) # "ok")

C15_Witness ==
    /\ phase = "done"
    /\ args.s3_key = "PL/B002/B002_2.pdf"
    /\ args.env.pdfjs = "404"
    /\ args.env.presigned = "ok"
    /\ args.env.base64 = "ok"
    /\ result.calls = <<"embed_pdf_with_pdfjs_viewer",
                        "embed_pdf_with_presigned_url">>
    /\ result.html[6] = "<iframe src=\"https://presigned/PL/B002/B002_2.pdf\">"

\* All three strategies fail: the placeholder of the third comes back.
C15_WitnessAllFailed ==
    /\ phase = "done"
    /\ args.env = [pdfjs |-> "ClientError", presigned |-> "Exception",
                   base64 |-> "Exception"]
    /\ Len(result.calls) = 3
    /\ result.html[1] = RedP

\* ------------------------------------------------------------------------
\* C16: between interactions, a (batch, type) key reads reviewed exactly when
\* the audit list holds an entry of that batch and type, the status map marks
\* no key other than those, and no key reads reviewed exactly when the audit
\* list is empty.
ReviewedKeys ==
    {k \in AllKeys : get_batch_status(session_state, k[1], k[2]) = "reviewed"}

C16_ReviewedIffSaved ==
    /\ ReviewedKeys = SavedKeys
    /\ \A s \in DOMAIN Statuses :
          Statuses[s] = "reviewed" =>
              \E k \in SavedKeys : StatusKey(k[1], k[2]) = s
    /\ (ReviewedKeys = {}) <=> (AuditTrail = <<>>)

C16_Witness ==
    /\ Len(AuditTrail) = 2
    /\ ReviewedKeys = {<<"B001", "CI">>, <<"B002", "PL">>}
    /\ session_state.batch = "B003"
    /\ get_batch_status(session_state, "B003", session_state.doc_type)
          = "not-reviewed"

====
